---- MODULE Spec2Model ----
(***************************************************************************)
(* Model of the configuration composition engine of platoform-pulumi:     *)
(*   - deepMerge (src/src/utils.ts), the right-biased structural merge;   *)
(*   - the application orchestrator, the deployment composer, the CI/CD   *)
(*     composer and the scaler composer (src/unnamed/part_000,            *)
(*     src/src/app/scaler.ts).                                            *)
(***************************************************************************)
EXTENDS Integers, Sequences, FiniteSets, TLC

(***************************************************************************)
(* JavaScript values.  Every value is a record tagged by k.  Records and  *)
(* sequences are mutable objects: they carry the identity id of the       *)
(* object (the path at which the object sits in the document that owns    *)
(* it), so that two values with the same id are the same object.          *)
(***************************************************************************)
Undef == [k |-> "undef"]
Null == [k |-> "null"]
Num(i) == [k |-> "num", n |-> i]
Str(chars) == [k |-> "str", c |-> chars]
Bool(b) == [k |-> "bool", b |-> b]
\* A deferred value (pulumi Output): an object whose content v is known only
\* to the provisioning engine.
Out(v) == [k |-> "out", v |-> v]
Arr(id, elems) == [k |-> "seq", id |-> id, s |-> elems]
Obj(id, fields) == [k |-> "rec", id |-> id, m |-> fields]

NoFields == [key \in {} |-> Undef]

\* Bounds of the document universe.
MaxSeqLen == 2

Keys == {"a", "b"}
NestKey == "a"
Scalars == {Num(1), Str(<<"x", "y">>)}

\* JavaScript truthiness: !v is ~Truthy(v).
Truthy(v) ==
  CASE v.k \in {"undef", "null"} -> FALSE
    [] v.k = "num" -> v.n # 0
    [] v.k = "str" -> Len(v.c) > 0
    [] v.k = "bool" -> v.b
    [] OTHER -> TRUE

\* source[key] && typeof source[key] === 'object' && !Array.isArray(source[key])
IsObjectOrArray(v) == v.k \in {"rec", "seq"}
IsNonEmptyObject(v) == v.k = "rec" /\ DOMAIN v.m # {}
IsPlainObject(v) == v.k = "rec"

\* The property name of the i-th element of an array or string.
IndexKey(i) == ToString(i - 1)

\* The own enumerable properties of a value, as {...v} and for..in see them:
\* the fields of a record, the indices of an array or of a string, nothing
\* for a number, null or undefined.
OwnProps(v) ==
  CASE v.k = "rec" -> v.m
    [] v.k = "seq" ->
         [key \in {IndexKey(i) : i \in 1..Len(v.s)} |->
            v.s[CHOOSE i \in 1..Len(v.s) : IndexKey(i) = key]]
    [] v.k = "str" ->
         [key \in {IndexKey(i) : i \in 1..Len(v.c)} |->
            Str(<<v.c[CHOOSE i \in 1..Len(v.c) : IndexKey(i) = key]>>)]
    [] OTHER -> NoFields

\* v[key]
Get(v, key) == IF key \in DOMAIN OwnProps(v) THEN OwnProps(v)[key] ELSE Undef

\* The identity of the object a call of deepMerge allocates for its result:
\* one per call, and every call has its own source object.
NewId(source) == <<"new">> \o (IF "id" \in DOMAIN source THEN source.id ELSE <<>>)

\* const result = { ...target }
ShallowCopyNothing(target) == NoFields
ShallowCopy(target) == OwnProps(target)

\* target[key] || {}
OrEmpty(v) == IF Truthy(v) THEN v ELSE Obj(<<"tmp">>, NoFields)

\* { ...target, ...source }
ShallowMerge(target, source) ==
  IF ~Truthy(source) THEN target
  ELSE IF ~Truthy(target) THEN source
  ELSE Obj(NewId(source),
           [key \in DOMAIN OwnProps(target) \cup DOMAIN OwnProps(source) |->
              IF key \in DOMAIN OwnProps(source)
              THEN OwnProps(source)[key] ELSE OwnProps(target)[key]])

RECURSIVE deepMerge(_, _)
deepMerge(target, source) ==
  IF ~Truthy(source) THEN target
  ELSE IF ~Truthy(target) THEN source
  ELSE LET result == ShallowCopy(target)
           src == OwnProps(source)
       IN Obj(NewId(source),
              [key \in DOMAIN result \cup DOMAIN src |->
                 IF key \in DOMAIN src
                 THEN IF IsPlainObject(src[key])
                      THEN deepMerge(OrEmpty(Get(target, key)), src[key])
                      ELSE src[key]
                 ELSE result[key]])

(***************************************************************************)
(* The documents deepMerge is applied to: records over Keys whose values  *)
(* are null, scalars, sequences or nested records, three levels deep.     *)
(* path is the identity of the object.                                    *)
(***************************************************************************)
Leaves(path) ==
  {Null} \cup Scalars \cup {Arr(path, [i \in 1..n |-> Num(i)]) : n \in 1..MaxSeqLen}

FieldsOver(path, nested) ==
  UNION { { f \in [D -> UNION {Leaves(Append(path, key)) : key \in D} \cup nested] :
              \A key \in D : \/ f[key] \in Leaves(Append(path, key))
                             \/ key = NestKey /\ f[key] \in nested }
          : D \in SUBSET Keys }

\* The innermost records hold one key.
InnerLeaves(path) == {Null, Num(1), Arr(path, <<Num(1)>>)}
Level3(path) ==
  { Obj(path, f) :
      f \in UNION { [D -> InnerLeaves(Append(path, NestKey))] : D \in SUBSET {NestKey} } }
Level2(path) ==
  { Obj(path, f) : f \in FieldsOver(path, Level3(Append(path, NestKey))) }
Documents(root) ==
  { Obj(<<root>>, f) : f \in FieldsOver(<<root>>, Level2(<<root, NestKey>>)) } \cup {Undef}

\* Structural value of a document: the identities erased.
RECURSIVE Plain(_)
Plain(v) ==
  CASE v.k = "rec" -> Obj(<<>>, [key \in DOMAIN v.m |-> Plain(v.m[key])])
    [] v.k = "seq" -> Arr(<<>>, [i \in DOMAIN v.s |-> Plain(v.s[i])])
    [] OTHER -> v

\* The identities of the mutable objects reachable from a value.
RECURSIVE Objects(_)
Objects(v) ==
  CASE v.k = "rec" -> {v.id} \cup UNION {Objects(v.m[key]) : key \in DOMAIN v.m}
    [] v.k = "seq" -> {v.id} \cup UNION {Objects(v.s[i]) : i \in DOMAIN v.s}
    [] OTHER -> {}

(***************************************************************************)
(* The inputs of an application composition.                              *)
(***************************************************************************)
\* An optional field that is not set.
Unset == "<unset>"

\* Literal documents built by the composers.
Lit(fields) == Obj(<<>>, fields)
List(elems) == Arr(<<>>, elems)
Text(s) == Str(<<s>>)

\* Bounds of the application universe.
MaxServices == 2
MaxDeployments == 2

Cluster == [platform |-> "platoform", provider |-> "k8s-provider"]

AppName == "web"
ServiceNames == {"db", "redis"}

\* The services mapping of an application, in declaration order.
ServiceLists ==
  { l \in UNION { [1..n -> ServiceNames] : n \in 0..MaxServices } :
      \A i, j \in DOMAIN l : i # j => l[i] # l[j] }

\* What a service constructor returns.
ServiceResult(name) == name \o "-handle"

\* Environment: absent, an empty mapping, a mapping, or a function of the
\* resolved services.
NoEnv == Undef
EmptyEnv == Lit(NoFields)
SomeEnv == Lit([REDIS_URL |-> Out(Text("redis://"))])
EnvFunction == [k |-> "fn"]
EnvValues == {NoEnv, EmptyEnv, SomeEnv}
\* The same mapping with another value behind its deferred handle.
OtherEnv == Lit([REDIS_URL |-> Out(Text("rediss://"))])
\* What an environment function may return.
EnvReturns == EnvValues \cup {OtherEnv}
Environments == EnvValues \cup {EnvFunction}

NoIngress == [set |-> FALSE, healthCheck |-> Unset]
Ingress(healthCheck) == [set |-> TRUE, healthCheck |-> healthCheck]
NoScaler == [set |-> FALSE, minReplicas |-> 0, maxReplicas |-> 0, targetCPUUtilization |-> 0]
Scaler(min, max, cpu) ==
  [set |-> TRUE, minReplicas |-> min, maxReplicas |-> max, targetCPUUtilization |-> cpu]

\* A DeploymentConfig / DeploymentArgs.  containerPort 0 stands for an unset
\* port (the composer tests it with !containerPort).
Entry(name, tag, port, ingress, scaler, secrets, containerOverride, deploymentOverride) ==
  [name |-> name, image |-> "org/app", tag |-> tag, containerPort |-> port,
   ingress |-> ingress, scaler |-> scaler, secrets |-> secrets,
   containerOverride |-> containerOverride, deploymentOverride |-> deploymentOverride]

\* The deployment entries of the applications composed here.
AppEntries ==
  { Entry(Unset, Unset, 0, NoIngress, NoScaler, Undef, Undef, Undef),
    Entry("api", "v1", 3000, Ingress("/health"), Scaler(2, 10, 70), Undef, Undef, Undef),
    Entry("site", Unset, 0, Ingress(Unset), NoScaler, Undef, Undef, Undef),
    Entry(Unset, Unset, 3000, NoIngress, Scaler(10, 2, 70), Text("own-secret"), Undef, Undef) }

DeploymentLists == UNION { [1..n -> AppEntries] : n \in 0..MaxDeployments }

Applications ==
  [name : {AppName}, namespace : {Unset, "", "ns"}, services : ServiceLists,
   environment : Environments, deployments : DeploymentLists,
   cicd : {Unset, "true", "false"}]

\* The FactoryContext: which optional callbacks it supplies.
FactoryContexts == [exposeService : BOOLEAN, cicd : BOOLEAN]

\* The identities getDeployServiceAccount may resolve to.
Identities == { [name |-> "deployer", namespace |-> "ci"], [name |-> "bot", namespace |-> "ops"] }

\* What the platform's exposeService returns for a deployment.
ExposedServiceResult(name) == "exposed-" \o name

\* The arguments of a direct call of defineDeployment.
ContainerOverrides == {Undef, Lit([image |-> Text("other:tag"), envFrom |-> Null])}
DeploymentOverrides ==
  {Undef, Lit([metadata |-> Lit([name |-> Text("renamed")])]),
   Lit([metadata |-> Lit([namespace |-> Text("elsewhere")])]),
   Lit([spec |-> Lit([replicas |-> Num(3)])])}
DeploymentArgs ==
  { Entry(name, tag, port, ingress, scaler, secrets, co, do) :
      name \in {"api", "web"}, tag \in {Unset, "v1"}, port \in {0, 3000},
      ingress \in {NoIngress, Ingress(Unset), Ingress("/health")},
      scaler \in {NoScaler, Scaler(2, 10, 70), Scaler(10, 2, 70)},
      secrets \in {Null, Out(Text("for-web"))},
      co \in ContainerOverrides, do \in DeploymentOverrides }

(***************************************************************************)
(* Emitted resources and the documents of the composers.                  *)
(***************************************************************************)
NoIdentity == [name |-> Unset, namespace |-> Unset]

\* A resource registered with the provisioning engine: its kind and logical
\* name, the composer (by) and the deployment (idx, 0 for none) it was
\* emitted for, and the values its body is built from (Body below): the
\* namespace, and as far as the kind uses them the deployment arguments, the
\* environment and the CI/CD identity.
Resource(kind, name, by, idx, ns, deploymentArgs, env, sa) ==
  [kind |-> kind, name |-> name, by |-> by, idx |-> idx, namespace |-> ns,
   args |-> deploymentArgs, environment |-> env, sa |-> sa,
   provider |-> Cluster.provider]

\* app?.namespace || app.name
ResolveNamespaceToName(a) == a.name
ResolveNamespace(a) ==
  IF a.namespace # Unset /\ a.namespace # "" THEN a.namespace ELSE a.name

NamespaceBody(namespace) == Lit([metadata |-> Lit([name |-> Text(namespace)])])

SecretBodyWithoutPayload(name, namespace, environment) ==
  Lit([stringData |-> Lit(NoFields),
       metadata |-> Lit([name |-> Text("for-" \o name), namespace |-> Text(namespace)])])
SecretBody(name, namespace, environment) ==
  Lit([stringData |-> environment,
       metadata |-> Lit([name |-> Text("for-" \o name), namespace |-> Text(namespace)])])

\* new k8s.core.v1.Secret(...).metadata.name
SecretName(a) == Out(Text("for-" \o a.name))

\* { name: app.name, secrets, ...deploymentConfig }
ArgsOfDefaultsWin(a, secrets, deploymentConfig) ==
  [deploymentConfig EXCEPT !.name = a.name, !.secrets = secrets]
ArgsOf(a, secrets, deploymentConfig) ==
  [deploymentConfig EXCEPT
     !.name = IF deploymentConfig.name = Unset THEN a.name ELSE deploymentConfig.name,
     !.secrets = IF deploymentConfig.secrets = Undef THEN secrets ELSE deploymentConfig.secrets]

\* tag = 'latest', containerOverride = {}, deploymentOverride = {}
TagOf(args) == IF args.tag = Unset THEN "latest" ELSE args.tag
OrEmptyRecord(v) == IF v = Undef THEN Lit(NoFields) ELSE v

\* ingress && !containerPort
PortNeverMissing(args) == FALSE
IngressWithoutPort(args) == args.ingress.set /\ args.containerPort = 0

\* ingress && containerPort
ExposureWhenPort(args) == args.containerPort # 0
ExposureRequested(args) == args.ingress.set /\ args.containerPort # 0

MissingPortError(name) ==
  "Container port must be defined when using ingress for application " \o name
MissingExposeErrorUnnamed(name) ==
  "exposeService is required when ingress is configured"
MissingExposeError(name) ==
  "exposeService is required when ingress is configured for deployment " \o name

Probe(args) ==
  IF args.containerPort # 0 /\ args.ingress.set /\ args.ingress.healthCheck # Unset
  THEN Lit([httpGet |-> Lit([path |-> Text(args.ingress.healthCheck),
                             port |-> Num(args.containerPort)])])
  ELSE Undef

BaseContainer(args) ==
  Lit([name |-> Text(args.name),
       image |-> Text(args.image \o ":" \o TagOf(args)),
       ports |-> IF args.containerPort # 0
                 THEN List(<<Lit([containerPort |-> Num(args.containerPort),
                                  name |-> Text("http"),
                                  protocol |-> Text("TCP")])>>)
                 ELSE Undef,
       envFrom |-> IF Truthy(args.secrets)
                   THEN List(<<Lit([secretRef |-> Lit([name |-> args.secrets])])>>)
                   ELSE Undef,
       livenessProbe |-> Probe(args),
       readinessProbe |-> Probe(args)])

MergedContainer(args) == deepMerge(BaseContainer(args), OrEmptyRecord(args.containerOverride))

NameLabel(name) == [key \in {"app.kubernetes.io/name"} |-> Text(name)]

BaseDeployment(args, namespace) ==
  Lit([metadata |-> Lit([name |-> Text(args.name),
                         namespace |-> Text(namespace),
                         labels |-> Lit(NameLabel(args.name))]),
       spec |-> Lit([replicas |-> Num(1),
                     selector |-> Lit([matchLabels |-> Lit(NameLabel(args.name))]),
                     template |-> Lit([metadata |-> Lit([labels |-> Lit(NameLabel(args.name))]),
                                       spec |-> Lit([containers |->
                                                       List(<<MergedContainer(args)>>)])])])])

FinalDeployment(args, namespace) ==
  deepMerge(BaseDeployment(args, namespace), OrEmptyRecord(args.deploymentOverride))

\* ignoreChanges of the workload resource.
IgnoreChanges == <<"spec.replicas", "spec.template.spec.containers[0].image">>

\* defineScaler: the autoscaler it emits.
ScalerBodyOrdered(target, scaler, namespace) ==
  LET lo == IF scaler.minReplicas <= scaler.maxReplicas
            THEN scaler.minReplicas ELSE scaler.maxReplicas
      hi == IF scaler.minReplicas <= scaler.maxReplicas
            THEN scaler.maxReplicas ELSE scaler.minReplicas
  IN Lit([metadata |-> Lit([name |-> Text("for-" \o target),
                            namespace |-> Text(namespace),
                            labels |-> Lit([key \in {"app.kubernetes.io/name"} |-> Text(target)])]),
          spec |-> Lit([scaleTargetRef |-> Lit([apiVersion |-> Text("apps/v1"),
                                                kind |-> Text("Deployment"),
                                                name |-> Text(target)]),
                        minReplicas |-> Num(lo),
                        maxReplicas |-> Num(hi),
                        metrics |-> List(<<Lit([type |-> Text("Resource"),
                           resource |-> Lit([name |-> Text("cpu"),
                              target |-> Lit([type |-> Text("Utilization"),
                                 averageUtilization |->
                                   Num(scaler.targetCPUUtilization)])])])>>)])])
ScalerBody(target, scaler, namespace) ==
  Lit([metadata |-> Lit([name |-> Text("for-" \o target),
                         namespace |-> Text(namespace),
                         labels |-> Lit(NameLabel(target))]),
       spec |-> Lit([scaleTargetRef |-> Lit([apiVersion |-> Text("apps/v1"),
                                             kind |-> Text("Deployment"),
                                             name |-> Text(target)]),
                     minReplicas |-> Num(scaler.minReplicas),
                     maxReplicas |-> Num(scaler.maxReplicas),
                     metrics |-> List(<<Lit([type |-> Text("Resource"),
                        resource |-> Lit([name |-> Text("cpu"),
                           target |-> Lit([type |-> Text("Utilization"),
                              averageUtilization |->
                                Num(scaler.targetCPUUtilization)])])])>>)])])

\* defineCICD: the role and the binding it emits.
Rule(group, resource, verbs) ==
  Lit([apiGroups |-> List(<<Text(group)>>), resources |-> List(<<Text(resource)>>),
       verbs |-> List([i \in DOMAIN verbs |-> Text(verbs[i])])])

RoleBody(namespace) ==
  Lit([metadata |-> Lit([name |-> Text("github-deployer"), namespace |-> Text(namespace)]),
       rules |-> List(<<
         Rule("apps", "deployments", <<"get", "list", "patch", "update">>),
         Rule("", "pods", <<"get", "list", "watch">>),
         Rule("", "pods/log", <<"get", "list">>),
         Rule("batch", "jobs", <<"get", "list", "create", "delete", "watch">>),
         Rule("batch", "cronjobs", <<"get", "list", "patch", "update">>) >>)])

\* role.metadata.name
RoleName(namespace) == Out(Get(Get(RoleBody(namespace), "metadata"), "name"))

SubjectsSwapped(sa) ==
  List(<<Lit([kind |-> Text("ServiceAccount"),
              name |-> Out(Text(sa.namespace)),
              namespace |-> Out(Text(sa.name))])>>)
Subjects(sa) ==
  List(<<Lit([kind |-> Text("ServiceAccount"),
              name |-> Out(Text(sa.name)),
              namespace |-> Out(Text(sa.namespace))])>>)

RoleBindingBody(namespace, sa) ==
  Lit([metadata |-> Lit([name |-> Text("github-deployer"), namespace |-> Text(namespace)]),
       subjects |-> Subjects(sa),
       roleRef |-> Lit([kind |-> Text("Role"),
                        name |-> RoleName(namespace),
                        apiGroup |-> Text("rbac.authorization.k8s.io")])])

NoArgs == Entry(Unset, Unset, 0, NoIngress, NoScaler, Undef, Undef, Undef)

NamespaceResource(namespace) ==
  Resource("Namespace", namespace, "application", 0, namespace, NoArgs, Undef, NoIdentity)

SecretResource(a, namespace, environment) ==
  Resource("Secret", a.name, "application", 0, namespace, NoArgs, environment, NoIdentity)

WorkloadResource(args, namespace, idx) ==
  Resource("Deployment", args.name, "deployment", idx, namespace, args, Undef, NoIdentity)

ScalerResource(target, scaler, namespace, idx) ==
  Resource("HorizontalPodAutoscaler", target, "scaler", idx, namespace,
           [NoArgs EXCEPT !.scaler = scaler], Undef, NoIdentity)

RoleResource(a, namespace) ==
  Resource("Role", a.name \o "-github-role", "cicd", 0, namespace, NoArgs, Undef, NoIdentity)

RoleBindingResourcePerSubject(a, namespace, sa) ==
  Resource("RoleBinding", a.name \o "-" \o sa.name \o "-binding", "cicd", 0, namespace,
           NoArgs, Undef, sa)
RoleBindingResource(a, namespace, sa) ==
  Resource("RoleBinding", a.name \o "-github-binding", "cicd", 0, namespace, NoArgs, Undef, sa)

\* The document a resource was registered with.
Body(r) ==
  CASE r.kind = "Namespace" -> NamespaceBody(r.namespace)
    [] r.kind = "Secret" -> SecretBody(r.name, r.namespace, r.environment)
    [] r.kind = "Deployment" -> FinalDeployment(r.args, r.namespace)
    [] r.kind = "HorizontalPodAutoscaler" -> ScalerBody(r.name, r.args.scaler, r.namespace)
    [] r.kind = "Role" -> RoleBody(r.namespace)
    [] r.kind = "RoleBinding" -> RoleBindingBody(r.namespace, r.sa)

Skipped == Lit([skipped |-> Bool(TRUE)])
\* { role: { name: role.metadata.name, subjects: roleBinding.subjects } }
CICDResult(namespace, sa) ==
  Lit([role |-> Lit([name |-> RoleName(namespace), subjects |-> Out(Subjects(sa))])])

(***************************************************************************)
(* State.  base, override, merged, mpc: one call of deepMerge; layer, a   *)
(* third document merged on top, and regrouped, the same three documents  *)
(* merged in the other grouping.  The rest: one application composition   *)
(* (defineApplication) or one direct call of defineDeployment.            *)
(*   app, ctx     the Application and the FactoryContext (inputs)         *)
(*   pc           position in defineApplication                          *)
(*   namespace    the resolved namespace                                  *)
(*   emitted      the resources registered so far, in order               *)
(*   calls        the callbacks invoked so far, in order                  *)
(*   services     the entries [name, result] collected by defineServices  *)
(*   environment, secrets   results of defineServices and defineSecrets   *)
(*   args, dpc, exposed     the running defineDeployment call             *)
(*   deployments  the results of the defineDeployment calls that returned *)
(*   cicd, result, error    results of defineCICD and of the composition  *)
(*   factory      the ApplicationFactory: its config.services, its        *)
(*                services registry, and the name a caller asked it for   *)
(*   redis        the arguments of the redis service constructor at work  *)
(*   first        the outcome of an earlier composition of the same       *)
(*                application, kept for comparison                        *)
(***************************************************************************)
VARIABLES base, override, merged, mpc, layer, regrouped,
          app, ctx, pc, namespace, emitted, calls, services, environment, secrets,
          args, dpc, exposed, deployments, cicd, result, error,
          factory, redis, first

mvars == <<base, override, merged, mpc, layer, regrouped>>
inputs == <<app, ctx, factory, redis, first>>
dvars == <<args, dpc, exposed, deployments>>
avars == <<app, ctx, pc, namespace, emitted, calls, services, environment, secrets,
           args, dpc, exposed, deployments, cicd, result, error, factory, redis, first>>
vars == <<mvars, avars>>

NoApp ==
  [name |-> AppName, namespace |-> Unset, services |-> <<>>, environment |-> NoEnv,
   deployments |-> <<>>, cicd |-> "false"]
NoResult == [returned |-> FALSE]
NoServices == [name \in {} |-> ""]
\* An optional mapping from service names to constructors.
NoMap == [set |-> FALSE, of |-> NoServices]
Map(constructors) == [set |-> TRUE, of |-> constructors]
NoFactory == [config |-> NoMap, services |-> NoMap, asked |-> {}]
NoRedis == [definition |-> 0, name |-> Unset]
NoFirst == [done |-> FALSE]

\* No factory, no redis constructor, no earlier composition.
Alone == factory = NoFactory /\ redis = NoRedis /\ first = NoFirst

\* Nothing is being merged.
MergeIdle ==
  /\ base = Undef /\ override = Undef /\ merged = Undef /\ mpc = "idle"
  /\ layer = Undef /\ regrouped = Undef

\* Nothing is being composed.
ComposeIdle ==
  /\ app = NoApp /\ ctx = [exposeService |-> FALSE, cicd |-> FALSE]
  /\ pc = "idle" /\ namespace = Unset /\ emitted = <<>> /\ calls = <<>>
  /\ services = <<>> /\ environment = Undef /\ secrets = Null
  /\ args = NoArgs /\ dpc = "idle" /\ exposed = Unset /\ deployments = <<>>
  /\ cicd = Undef /\ result = NoResult /\ error = ""
  /\ Alone

(***************************************************************************)
(* deepMerge applied to a pair of documents.                              *)
(***************************************************************************)
InitMerge ==
  /\ base \in Documents("base")
  /\ override \in Documents("override")
  /\ merged = Undef
  /\ layer = Undef /\ regrouped = Undef
  /\ mpc = "call"
  /\ ComposeIdle

\* merged = deepMerge(base, override)
Merge ==
  /\ mpc = "call"
  /\ merged' = deepMerge(base, override)
  /\ mpc' = "returned"
  /\ UNCHANGED <<base, override, layer, regrouped, avars>>

NextMerge == Merge

SpecMerge == InitMerge /\ [][NextMerge]_vars

(***************************************************************************)
(* defineApplication(app, cluster, factoryConfig)                         *)
(***************************************************************************)
Init ==
  /\ MergeIdle
  /\ app \in Applications
  /\ ctx \in FactoryContexts
  /\ pc = "namespace" /\ namespace = Unset /\ emitted = <<>> /\ calls = <<>>
  /\ services = <<>> /\ environment = Undef /\ secrets = Null
  /\ args = NoArgs /\ dpc = "idle" /\ exposed = Unset /\ deployments = <<>>
  /\ cicd = Undef /\ result = NoResult /\ error = ""
  /\ Alone

\* A callback invocation: the callback, the service or deployment it is invoked
\* for (idx: the number of the deployment, 0 for none), its argument and what
\* it returned.
Call(fn, name, idx, arg, ret) == [fn |-> fn, name |-> name, idx |-> idx, arg |-> arg, ret |-> ret]
Thrown == "<throws>"

\* The entry the map over Object.entries(app.services) visits next.
LastServiceFirst(a, collected) == a.services[Len(a.services) - Len(collected)]
NextService(a, collected) == a.services[Len(collected) + 1]

ServiceArgs(a, ns, context) ==
  [applicationName |-> a.name, namespace |-> ns, cluster |-> Cluster, context |-> context]

\* An exception leaves the running call and the composition.
ThrowReturnsPartial(message) == pc' = "return" /\ error' = message
ThrowAndContinue(message) == pc' = "deployments" /\ error' = message
Throw(message) == pc' = "failed" /\ error' = message

\* The number of the deployment being composed.
CurrentFromLast == Len(app.deployments) - Len(deployments)
Current == Len(deployments) + 1

\* const namespace = app?.namespace || app.name; new k8s.core.v1.Namespace(...)
EmitNamespace ==
  /\ pc = "namespace"
  /\ namespace' = ResolveNamespace(app)
  /\ emitted' = Append(emitted, NamespaceResource(namespace'))
  /\ pc' = "services"
  /\ UNCHANGED <<mvars, inputs, calls, services, environment, secrets, dvars, cicd,
                 result, error>>

\* One step of the map over Object.entries(app.services): the next constructor
\* is invoked, and returns or throws.
CallService ==
  /\ pc = "services"
  /\ Len(services) < Len(app.services)
  /\ LET name == NextService(app, services) IN
       \E returned \in {ServiceResult(name), Thrown} :
         /\ calls' = Append(calls, Call("service", name, 0,
                                        ServiceArgs(app, namespace, ctx), returned))
         /\ IF returned = Thrown
            THEN Throw("service " \o name \o " failed") /\ UNCHANGED services
            ELSE services' = Append(services, <<name, returned>>) /\ UNCHANGED <<pc, error>>
  /\ UNCHANGED <<mvars, inputs, namespace, emitted, environment, secrets, dvars, cicd,
                 result>>

\* The return of defineServices: the environment is app.environment, or what
\* the environment function returns for the services map.
ComputeEnvironment ==
  /\ pc = "services"
  /\ Len(services) = Len(app.services)
  /\ IF app.environment = EnvFunction
     THEN \E returned \in EnvReturns \cup {[k |-> "throws"]} :
            /\ calls' = Append(calls, Call("environment", "", 0, services, returned))
            /\ IF returned.k = "throws"
               THEN Throw("environment failed") /\ UNCHANGED environment
               ELSE environment' = returned /\ pc' = "secrets" /\ UNCHANGED error
     ELSE /\ environment' = app.environment
          /\ pc' = "secrets"
          /\ UNCHANGED <<calls, error>>
  /\ UNCHANGED <<mvars, inputs, namespace, emitted, services, secrets, dvars, cicd,
                 result>>

\* const secrets = defineSecrets(environment)
defineSecrets ==
  /\ pc = "secrets"
  /\ IF ~Truthy(environment)
     THEN secrets' = Null /\ UNCHANGED emitted
     ELSE /\ emitted' = Append(emitted, SecretResource(app, namespace, environment))
          /\ secrets' = SecretName(app)
  /\ pc' = "deployments"
  /\ UNCHANGED <<mvars, inputs, namespace, calls, services, environment, dvars, cicd,
                 result, error>>

\* One step of the map over app.deployments: defineDeployment is called for
\* the next entry.
CallDefineDeployment ==
  /\ pc = "deployments" /\ dpc = "idle"
  /\ Len(deployments) < Len(app.deployments)
  /\ args' = ArgsOf(app, secrets, app.deployments[Current])
  /\ dpc' = "check"
  /\ UNCHANGED <<mvars, inputs, pc, namespace, emitted, calls, services, environment,
                 secrets, exposed, deployments, cicd, result, error>>

\* if (ingress && !containerPort) throw
CheckIngress ==
  /\ dpc = "check"
  /\ IF IngressWithoutPort(args)
     THEN Throw(MissingPortError(args.name)) /\ dpc' = "threw"
     ELSE dpc' = "emit" /\ UNCHANGED <<pc, error>>
  /\ UNCHANGED <<mvars, inputs, namespace, emitted, calls, services, environment,
                 secrets, args, exposed, deployments, cicd, result>>

\* The container and the deployment are merged with their overrides and the
\* workload is registered.
EmitDeployment ==
  /\ dpc = "emit"
  /\ emitted' = Append(emitted, WorkloadResource(args, namespace, Current))
  /\ dpc' = "expose"
  /\ UNCHANGED <<mvars, inputs, pc, namespace, calls, services, environment, secrets,
                 args, exposed, deployments, cicd, result, error>>

\* { ...args, namespace, name, containerPort, ingress }
ExposedServiceArgs(a, ns) == [deployment |-> a, namespace |-> ns, cluster |-> Cluster]

\* if (ingress && containerPort) { ... exposeService(cluster, {...}) }
ExposeService ==
  /\ dpc = "expose"
  /\ IF ExposureRequested(args)
     THEN IF ~ctx.exposeService
          THEN /\ Throw(MissingExposeError(args.name)) /\ dpc' = "threw"
               /\ UNCHANGED <<calls, exposed>>
          ELSE \E returned \in {ExposedServiceResult(args.name), Thrown} :
                 /\ calls' = Append(calls, Call("exposeService", args.name, Current,
                                                ExposedServiceArgs(args, namespace), returned))
                 /\ IF returned = Thrown
                    THEN /\ Throw("exposeService failed") /\ dpc' = "threw"
                         /\ UNCHANGED exposed
                    ELSE exposed' = returned /\ dpc' = "scale" /\ UNCHANGED <<pc, error>>
     ELSE exposed' = Unset /\ dpc' = "scale" /\ UNCHANGED <<calls, pc, error>>
  /\ UNCHANGED <<mvars, inputs, namespace, emitted, services, environment, secrets,
                 args, deployments, cicd, result>>

\* deployment.metadata.name
WorkloadName(a, ns) == Out(Get(Get(FinalDeployment(a, ns), "metadata"), "name"))

DeploymentResult(a, ns, exposedService) ==
  [name |-> WorkloadName(a, ns), containerPort |-> a.containerPort,
   ingress |-> exposedService, scaler |-> a.scaler]

\* if (scaler) defineScaler(name, scaler, namespace, cluster); return {...}
ScaleAndReturn ==
  /\ dpc = "scale"
  /\ IF args.scaler.set
     THEN emitted' = Append(emitted, ScalerResource(args.name, args.scaler, namespace, Current))
     ELSE UNCHANGED emitted
  /\ deployments' = Append(deployments, DeploymentResult(args, namespace, exposed))
  /\ dpc' = "idle"
  /\ UNCHANGED <<mvars, inputs, pc, namespace, calls, services, environment, secrets,
                 args, exposed, cicd, result, error>>

\* The outcomes of getDeployServiceAccount(cluster).
AccountOutcomes ==
  {[kind |-> "null"], [kind |-> "throws"]} \cup
  {[kind |-> "identity", sa |-> sa] : sa \in Identities}

\* app.cicd !== false
CICDRequestedWhenTrue(a) == a.cicd = "true"
CICDRequested(a) == a.cicd # "false"

\* The map over app.deployments is done:
\* const cicd = app.cicd !== false ? defineCICD(...) : undefined
defineCICD ==
  /\ pc = "deployments" /\ dpc = "idle"
  /\ Len(deployments) = Len(app.deployments)
  /\ IF ~CICDRequested(app)
     THEN cicd' = Undef /\ pc' = "return" /\ UNCHANGED <<emitted, calls, error>>
     ELSE IF ~ctx.cicd
     THEN cicd' = Skipped /\ pc' = "return" /\ UNCHANGED <<emitted, calls, error>>
     ELSE \E outcome \in AccountOutcomes :
            /\ calls' = Append(calls, Call("getDeployServiceAccount", "", 0, Cluster, outcome))
            /\ CASE outcome.kind = "throws" ->
                   /\ Throw("getDeployServiceAccount failed")
                   /\ UNCHANGED <<emitted, cicd>>
              [] outcome.kind = "null" ->
                   cicd' = Skipped /\ pc' = "return" /\ UNCHANGED <<emitted, error>>
              [] OTHER ->
                   /\ emitted' = emitted \o <<RoleResource(app, namespace),
                                               RoleBindingResource(app, namespace, outcome.sa)>>
                   /\ cicd' = CICDResult(namespace, outcome.sa)
                   /\ pc' = "return"
                   /\ UNCHANGED error
  /\ UNCHANGED <<mvars, inputs, namespace, services, environment, secrets, dvars, result>>

\* return { namespace, secrets, services, deployments, cicd }
Return ==
  /\ pc = "return"
  /\ result' = [returned |-> TRUE, namespace |-> namespace, secrets |-> secrets,
                services |-> services, deployments |-> deployments, cicd |-> cicd]
  /\ pc' = "returned"
  /\ UNCHANGED <<mvars, inputs, namespace, emitted, calls, services, environment,
                 secrets, dvars, cicd, error>>

Next ==
  \/ EmitNamespace
  \/ CallService
  \/ ComputeEnvironment
  \/ defineSecrets
  \/ CallDefineDeployment
  \/ CheckIngress
  \/ EmitDeployment
  \/ ExposeService
  \/ ScaleAndReturn
  \/ defineCICD
  \/ Return

Spec == Init /\ [][Next]_vars

(***************************************************************************)
(* The same application composed twice: a second call of                  *)
(* defineApplication with the same arguments, in which the deferred       *)
(* handles may resolve to other values.                                   *)
(***************************************************************************)
\* What of a callback's outcome is known while composing: that it returned or
\* threw, that an identity or null or a mapping came back; not the values
\* behind the deferred handles.
OutcomeKind(call) ==
  CASE call.fn = "getDeployServiceAccount" -> call.ret.kind
    [] call.fn = "environment" ->
         (IF call.ret.k = "throws" THEN "throws"
          ELSE IF call.ret.k # "rec" THEN "absent"
          ELSE IF DOMAIN call.ret.m = {} THEN "empty" ELSE "mapping")
    [] OTHER -> (IF call.ret = Thrown THEN "throws" ELSE "returns")

CallShape(call) ==
  [fn |-> call.fn, name |-> call.name, idx |-> call.idx, outcome |-> OutcomeKind(call)]
ResourceShape(r) == [kind |-> r.kind, name |-> r.name]

\* The outcome of a composition: success or failure, the emitted resources by
\* kind and logical name, the callback invocations.
Outcome ==
  [done |-> TRUE, pc |-> pc, error |-> error,
   emitted |-> [i \in DOMAIN emitted |-> ResourceShape(emitted[i])],
   calls |-> [i \in DOMAIN calls |-> CallShape(calls[i])]]

\* The applications composed twice.
TwinApplications ==
  { a \in Applications :
      /\ a.namespace = Unset
      /\ a.environment \in {NoEnv, EnvFunction}
      /\ a.cicd \in {Unset, "false"} }

InitTwin ==
  /\ MergeIdle
  /\ app \in TwinApplications
  /\ ctx \in FactoryContexts
  /\ pc = "namespace" /\ namespace = Unset /\ emitted = <<>> /\ calls = <<>>
  /\ services = <<>> /\ environment = Undef /\ secrets = Null
  /\ args = NoArgs /\ dpc = "idle" /\ exposed = Unset /\ deployments = <<>>
  /\ cicd = Undef /\ result = NoResult /\ error = ""
  /\ Alone

\* The first composition is over; the application is composed again.
Again ==
  /\ pc \in {"returned", "failed"}
  /\ ~first.done
  /\ first' = Outcome
  /\ pc' = "namespace" /\ namespace' = Unset /\ emitted' = <<>> /\ calls' = <<>>
  /\ services' = <<>> /\ environment' = Undef /\ secrets' = Null
  /\ args' = NoArgs /\ dpc' = "idle" /\ exposed' = Unset /\ deployments' = <<>>
  /\ cicd' = Undef /\ result' = NoResult /\ error' = ""
  /\ UNCHANGED <<mvars, app, ctx, factory, redis>>

NextTwin == Next \/ Again

SpecTwin == InitTwin /\ [][NextTwin]_vars

(***************************************************************************)
(* defineDeployment(args, namespace, cluster, factoryConfig) called on    *)
(* its own.                                                               *)
(***************************************************************************)
InitDeployment ==
  /\ MergeIdle
  /\ app = NoApp
  /\ ctx \in [exposeService : BOOLEAN, cicd : {FALSE}]
  /\ pc = "defineDeployment" /\ namespace \in {"web", "ns"}
  /\ emitted = <<>> /\ calls = <<>>
  /\ services = <<>> /\ environment = Undef /\ secrets = Null
  /\ args \in DeploymentArgs /\ dpc = "check" /\ exposed = Unset /\ deployments = <<>>
  /\ cicd = Undef /\ result = NoResult /\ error = ""
  /\ Alone

NextDeployment ==
  \/ CheckIngress
  \/ EmitDeployment
  \/ ExposeService
  \/ ScaleAndReturn

SpecDeployment == InitDeployment /\ [][NextDeployment]_vars

(***************************************************************************)
(* defineScaler(target, scaler, namespace, cluster) called on its own.    *)
(***************************************************************************)
\* Bound of the replica counts of the scaler specs.
MaxReplicas == 3
CPUTargets == {50, 70, 80}
ScalerSpecs ==
  { Scaler(min, max, cpu) : min \in 1..MaxReplicas, max \in 1..MaxReplicas, cpu \in CPUTargets }

InitScaler ==
  /\ MergeIdle
  /\ app = NoApp
  /\ ctx = [exposeService |-> FALSE, cicd |-> FALSE]
  /\ pc = "defineScaler" /\ namespace \in {"web", "ns"}
  /\ emitted = <<>> /\ calls = <<>>
  /\ services = <<>> /\ environment = Undef /\ secrets = Null
  /\ args \in { [NoArgs EXCEPT !.name = target, !.scaler = scaler] :
                  target \in {"api", "web"}, scaler \in ScalerSpecs }
  /\ dpc = "idle" /\ exposed = Unset /\ deployments = <<>>
  /\ cicd = Undef /\ result = NoResult /\ error = ""
  /\ Alone

\* new k8s.autoscaling.v2.HorizontalPodAutoscaler(target, {...}); return scaler
CallDefineScaler ==
  /\ pc = "defineScaler"
  /\ emitted' = Append(emitted, ScalerResource(args.name, args.scaler, namespace, 0))
  /\ result' = [returned |-> TRUE, scaler |-> args.scaler]
  /\ pc' = "returned"
  /\ UNCHANGED <<mvars, inputs, namespace, calls, services, environment, secrets, dvars,
                 cicd, error>>

NextScaler == CallDefineScaler

SpecScaler == InitScaler /\ [][NextScaler]_vars

(***************************************************************************)
(* new ApplicationFactory(config), and a caller that declares an          *)
(* application with services and has the factory compose it.              *)
(***************************************************************************)
\* config.services: absent, or caller-supplied constructors by name.
CustomServices ==
  {NoMap} \cup { Map([name \in D |-> "custom:" \o name]) : D \in SUBSET ServiceNames }

\* redis: defineRedis
BuiltIns == [name \in {"redis"} |-> "defineRedis"]

\* { redis: defineRedis, ...(config.services || {}) }
OverlayBuiltInsWin(builtins, custom) ==
  LET given == IF custom.set THEN custom.of ELSE NoServices IN
    [name \in DOMAIN builtins \cup DOMAIN given |->
       IF name \in DOMAIN builtins THEN builtins[name] ELSE given[name]]
Overlay(builtins, custom) ==
  LET given == IF custom.set THEN custom.of ELSE NoServices IN
    [name \in DOMAIN builtins \cup DOMAIN given |->
       IF name \in DOMAIN given THEN given[name] ELSE builtins[name]]

\* appFactory.services.<name>: undefined for a name the registry lacks.
LookupWithFallback(registry, name) ==
  IF name \in DOMAIN registry THEN registry[name] ELSE registry["redis"]
Lookup(registry, name) ==
  IF name \in DOMAIN registry THEN registry[name] ELSE Unset

\* Calling undefined.
NotAFunction(name) == "TypeError: appFactory.services." \o name \o " is not a function"

\* The applications the caller declares.
FactoryApplications ==
  { a \in Applications :
      /\ a.namespace = Unset /\ a.environment = NoEnv
      /\ a.deployments = <<>> /\ a.cicd = "false" }

InitFactory ==
  /\ MergeIdle
  /\ app = NoApp
  /\ ctx \in FactoryContexts
  /\ pc = "new" /\ namespace = Unset /\ emitted = <<>> /\ calls = <<>>
  /\ services = <<>> /\ environment = Undef /\ secrets = Null
  /\ args = NoArgs /\ dpc = "idle" /\ exposed = Unset /\ deployments = <<>>
  /\ cicd = Undef /\ result = NoResult /\ error = ""
  /\ factory \in [config : CustomServices, services : {NoMap}, asked : {{}}]
  /\ redis = NoRedis /\ first = NoFirst

\* constructor(config)
NewFactory ==
  /\ pc = "new"
  /\ factory' = [factory EXCEPT !.services = Map(Overlay(BuiltIns, factory.config))]
  /\ pc' = "constructed"
  /\ UNCHANGED <<mvars, app, ctx, redis, first, namespace, emitted, calls, services,
                 environment, secrets, dvars, cicd, result, error>>

\* The caller evaluates the application literal, taking the constructors of
\* the services numbered in taken from appFactory.services and supplying the
\* others itself, and then calls appFactory.defineApplication(app, cluster).
DeclareApplication ==
  /\ pc = "constructed"
  /\ \E a \in FactoryApplications, taken \in SUBSET (1..MaxServices) :
       /\ taken \subseteq DOMAIN a.services
       /\ factory' = [factory EXCEPT !.asked = { a.services[i] : i \in taken }]
       /\ LET missing == { i \in taken : Lookup(factory.services.of, a.services[i]) = Unset } IN
            IF missing # {}
            THEN /\ Throw(NotAFunction(
                            a.services[CHOOSE i \in missing : \A j \in missing : i <= j]))
                 /\ UNCHANGED app
            ELSE app' = a /\ pc' = "namespace" /\ UNCHANGED error
  /\ UNCHANGED <<mvars, ctx, redis, first, namespace, emitted, calls, services,
                 environment, secrets, dvars, cicd, result>>

NextFactory ==
  \/ NewFactory
  \/ DeclareApplication
  \/ EmitNamespace
  \/ CallService
  \/ ComputeEnvironment
  \/ defineSecrets
  \/ defineCICD
  \/ Return

SpecFactory == InitFactory /\ [][NextFactory]_vars

(***************************************************************************)
(* The built-in redis service constructor, defineRedis(args)(serviceArgs), *)
(* in its two definitions.                                                *)
(***************************************************************************)
\* What context.getStorageClass(cluster, 'fast') may return.
StorageClasses == {"fast-ssd", "premium"}

\* password.result of the RandomPassword resource.
Password == Out(Text("<password>"))

\* args.chartValues: absent, or a document over the sections of the chart.
ChartPath == <<"chartValues">>
MasterOverrides ==
  { Obj(Append(ChartPath, "master"), NoFields),
    Obj(Append(ChartPath, "master"),
        [persistence |-> Obj(<<"chartValues", "master", "persistence">>,
                             [size |-> Text("50Gi")])]),
    Obj(Append(ChartPath, "master"),
        [persistence |-> Obj(<<"chartValues", "master", "persistence">>,
                             [size |-> Text("50Gi"), storageClass |-> Text("own")])]),
    Obj(Append(ChartPath, "master"),
        [persistence |-> Obj(<<"chartValues", "master", "persistence">>,
                             [storageClass |-> Text("own")])]) }
GlobalOverrides ==
  { Null, Text("none"),
    Obj(Append(ChartPath, "global"), NoFields),
    Obj(Append(ChartPath, "global"), [storageClass |-> Text("own")]),
    Obj(Append(ChartPath, "global"), [imageRegistry |-> Text("mirror")]) }
AccountOverrides ==
  { Obj(Append(ChartPath, "serviceAccount"), [create |-> Bool(TRUE)]) }
ChartOverrides ==
  {Undef} \cup
  { Obj(ChartPath, f) :
      f \in UNION { { g \in [D -> MasterOverrides \cup GlobalOverrides \cup AccountOverrides] :
                        /\ "master" \in D => g["master"] \in MasterOverrides
                        /\ "global" \in D => g["global"] \in GlobalOverrides
                        /\ "serviceAccount" \in D => g["serviceAccount"] \in AccountOverrides }
                    : D \in SUBSET {"master", "global", "serviceAccount"} } }

RedisArgs == [definition : {1, 2}, name : {Unset, "cache"}]

\* [args.name || applicationName, 'redis'].join('-') in the first definition,
\* [args.release, namespace, 'redis'].filter(Boolean).join('-') in the second.
RedisName(r, applicationName, ns) ==
  IF r.definition = 1
  THEN (IF r.name \in {Unset, ""} THEN applicationName ELSE r.name) \o "-redis"
  ELSE (IF r.name \in {Unset, ""} THEN "" ELSE r.name \o "-") \o ns \o "-redis"

PasswordName(r, applicationName, ns) ==
  IF r.definition = 1 THEN RedisName(r, applicationName, ns) \o "-password"
  ELSE ns \o "-password"

\* The default chart values of the two definitions.
RedisDefaults(definition, storageClass) ==
  IF definition = 1
  THEN Lit([architecture |-> Text("standalone"),
            cluster |-> Lit([enabled |-> Bool(FALSE)]),
            master |-> Lit([persistence |-> Lit([size |-> Text("20Gi")])]),
            global |-> Lit([storageClass |-> Text(storageClass),
                            redis |-> Lit([password |-> Password])])])
  ELSE Lit([architecture |-> Text("standalone"),
            cluster |-> Lit([enabled |-> Bool(FALSE)]),
            master |-> Lit([persistence |-> Lit([size |-> Text("20Gi"),
                                                 storageClass |-> Text(storageClass)])]),
            global |-> Lit([redis |-> Lit([password |-> Password])])])

\* pulumi.all([password.result, `${name}-master`]).apply(...)
RedisUrl(name) == Out(<<"redis://:", Password, "@", name \o "-master">>)

InitRedis ==
  /\ base = Undef /\ override \in ChartOverrides /\ merged = Undef /\ mpc = "idle"
  /\ layer = Undef /\ regrouped = Undef
  /\ app = NoApp
  /\ ctx = [exposeService |-> FALSE, cicd |-> FALSE]
  /\ pc = "redis" /\ namespace \in {"web", "ns"}
  /\ emitted = <<>> /\ calls = <<>>
  /\ services = <<>> /\ environment = Undef /\ secrets = Null
  /\ args = NoArgs /\ dpc = "idle" /\ exposed = Unset /\ deployments = <<>>
  /\ cicd = Undef /\ result = NoResult /\ error = ""
  /\ factory = NoFactory /\ redis \in RedisArgs /\ first = NoFirst

\* The constructor registers the password and the chart, whose values are the
\* defaults merged with args.chartValues || {}, and returns the url.
CallRedis ==
  /\ pc = "redis"
  /\ \E storageClass \in StorageClasses :
       /\ calls' = Append(calls, Call("getStorageClass", "fast", 0, Cluster, storageClass))
       /\ base' = RedisDefaults(redis.definition, storageClass)
       /\ merged' = deepMerge(base', OrEmpty(override))
  /\ LET name == RedisName(redis, app.name, namespace) IN
       /\ emitted' = <<Resource("RandomPassword", PasswordName(redis, app.name, namespace),
                                "service", 0, namespace, NoArgs, Undef, NoIdentity),
                       Resource("Chart", name, "service", 0, namespace, NoArgs, Undef,
                                NoIdentity)>>
       /\ result' = [returned |-> TRUE, url |-> RedisUrl(name)]
  /\ pc' = "returned"
  /\ UNCHANGED <<override, mpc, layer, regrouped, inputs, namespace, services,
                 environment, secrets, dvars, cicd, error>>

NextRedis == CallRedis

SpecRedis == InitRedis /\ [][NextRedis]_vars

IsDocument(v) == v.k = "rec"
MergeReturned == mpc = "returned"
HasRec(v, key) == v.k = "rec" /\ key \in DOMAIN v.m /\ v.m[key].k = "rec"
HasSeq(v, key) == v.k = "rec" /\ key \in DOMAIN v.m /\ v.m[key].k = "seq"

(***************************************************************************)
(* C1 - merge right-bias.  m agrees with the override o on every key of o *)
(* (equal to o's value; recursively where both documents hold a record)   *)
(* and with the base b on every key present only in b.                    *)
(***************************************************************************)
RECURSIVE RightBiased(_, _, _)
RightBiased(m, b, o) ==
  /\ m.k = "rec"
  /\ \A key \in DOMAIN b.m \cup DOMAIN o.m :
       /\ key \in DOMAIN m.m
       /\ IF key \in DOMAIN o.m
          THEN IF o.m[key].k = "rec" /\ key \in DOMAIN b.m /\ b.m[key].k = "rec"
               THEN RightBiased(m.m[key], b.m[key], o.m[key])
               ELSE Plain(m.m[key]) = Plain(o.m[key])
          ELSE Plain(m.m[key]) = Plain(b.m[key])

\* C1: for all documents base and override, deepMerge(base, override) agrees
\* with override on every key of override and with base on every key present
\* only in base, also where the base holds a scalar or a sequence at a key at
\* which the override holds a record.
C1_RightBias ==
  (MergeReturned /\ IsDocument(base) /\ IsDocument(override))
    => RightBiased(merged, base, override)

(***************************************************************************)
(* C2 - sequence replacement.                                             *)
(***************************************************************************)
RECURSIVE OverrideReplaces(_, _)
OverrideReplaces(m, o) ==
  /\ m.k = "rec"
  /\ \A key \in DOMAIN o.m :
       /\ key \in DOMAIN m.m
       /\ IF o.m[key].k = "rec"
          THEN OverrideReplaces(m.m[key], o.m[key])
          ELSE Plain(m.m[key]) = Plain(o.m[key])

\* C2: at every nesting depth, at a key whose override value is a sequence, a
\* scalar or null the merged value is exactly the override value; sequences are
\* neither concatenated nor merged element by element.
C2_SequenceReplaced ==
  (MergeReturned /\ IsDocument(base) /\ IsDocument(override))
    => OverrideReplaces(merged, override)

\* A nested key holds sequences of different lengths in base and override.
C2_Witness ==
  /\ MergeReturned
  /\ HasRec(base, NestKey) /\ HasRec(override, NestKey)
  /\ HasSeq(base.m[NestKey], "b") /\ HasSeq(override.m[NestKey], "b")
  /\ Len(base.m[NestKey].m["b"].s) > Len(override.m[NestKey].m["b"].s)
  /\ Plain(merged.m[NestKey].m["b"]) = Plain(override.m[NestKey].m["b"])

(***************************************************************************)
(* C3 - what a null or absent override leaves untouched.                  *)
(***************************************************************************)
RECURSIVE KeepsBase(_, _, _, _)
KeepsBase(m, b, o, nullKeeps) ==
  /\ m.k = "rec"
  /\ \A key \in DOMAIN b.m :
       IF key \notin DOMAIN o.m \/ (nullKeeps /\ o.m[key].k = "null")
       THEN key \in DOMAIN m.m /\ Plain(m.m[key]) = Plain(b.m[key])
       ELSE (b.m[key].k = "rec" /\ o.m[key].k = "rec")
              => (key \in DOMAIN m.m /\ KeepsBase(m.m[key], b.m[key], o.m[key], nullKeeps))

\* C3 as stated: at every nesting depth a key of the base at which the override
\* holds null, or which the override does not define, keeps the base's value.
C3_NullOrAbsentKeepsBase ==
  (MergeReturned /\ IsDocument(base))
    => IF IsDocument(override)
       THEN KeepsBase(merged, base, override, TRUE)
       ELSE Plain(merged) = Plain(base)

\* C3 as amended: at every nesting depth a key of the base which the override
\* does not define keeps the base's value, and so does the whole base when the
\* override document itself is absent; an explicit null at a key of the
\* override replaces the base's value by null.
RECURSIVE NullReplaces(_, _)
NullReplaces(m, o) ==
  /\ m.k = "rec"
  /\ \A key \in DOMAIN o.m :
       /\ o.m[key].k = "null" => (key \in DOMAIN m.m /\ m.m[key].k = "null")
       /\ o.m[key].k = "rec" => (key \in DOMAIN m.m /\ NullReplaces(m.m[key], o.m[key]))

C3_AbsentKeepsBase ==
  (MergeReturned /\ IsDocument(base))
    => IF IsDocument(override)
       THEN KeepsBase(merged, base, override, FALSE) /\ NullReplaces(merged, override)
       ELSE Plain(merged) = Plain(base)

\* A nested record of the base has a key the override's nested record lacks,
\* and another at which the override holds null.
C3_Witness ==
  /\ MergeReturned
  /\ HasRec(base, NestKey) /\ HasRec(override, NestKey)
  /\ DOMAIN base.m[NestKey].m = Keys
  /\ DOMAIN override.m[NestKey].m = {NestKey}
  /\ override.m[NestKey].m[NestKey].k = "null"
  /\ base.m[NestKey].m[NestKey].k = "seq"
  /\ merged.m[NestKey].m[NestKey].k = "null"
  /\ Plain(merged.m[NestKey].m["b"]) = Plain(base.m[NestKey].m["b"])

(***************************************************************************)
(* C4 - the result is a structural copy.                                  *)
(***************************************************************************)
\* C4: no record or sequence reachable from the result of deepMerge is the
\* same object as one reachable from base or from override.
C4_StructuralCopy ==
  MergeReturned => Objects(merged) \cap (Objects(base) \cup Objects(override)) = {}

(***************************************************************************)
(* Properties of the deployment composer and of the orchestrator.         *)
(***************************************************************************)
EmittedOf(kind) == SelectSeq(emitted, LAMBDA r : r.kind = kind)
EmittedFor(idx) == SelectSeq(emitted, LAMBDA r : r.idx = idx)
CallsOf(fn) == SelectSeq(calls, LAMBDA c : c.fn = fn)
ExposeCallsFor(idx) == SelectSeq(calls, LAMBDA c : c.fn = "exposeService" /\ c.idx = idx)

\* The running defineDeployment call was given ingress / a container port.
RequestsIngress == args.ingress.set
PortSet == args.containerPort # 0

\* The namespace the application asks for: app.namespace, or app.name when
\* it is omitted or empty.
ExpectedNamespace == IF app.namespace \notin {Unset, ""} THEN app.namespace ELSE app.name

\* C5: a deployment that requests ingress while containerPort is unset fails
\* with the configuration error that names the deployment, before any resource
\* of that deployment is emitted and before exposeService is invoked.
C5_IngressPrecondition ==
  (RequestsIngress /\ ~PortSet /\ dpc # "check")
    => /\ dpc = "threw" /\ pc = "failed"
       /\ error = "Container port must be defined when using ingress for application "
                    \o args.name
       /\ Len(EmittedFor(Current)) = 0
       /\ Len(ExposeCallsFor(Current)) = 0
       /\ Len(deployments) = 0

C5_Witness ==
  /\ RequestsIngress /\ ~PortSet /\ dpc = "threw"
  /\ args.scaler.set /\ ctx.exposeService
  /\ emitted = <<>> /\ calls = <<>>

\* C6: a deployment that requests ingress with containerPort set, against a
\* context without exposeService, fails with the error 'exposeService is
\* required when ingress is configured for deployment <name>'; it never returns
\* a result.
C6_ExposurePrecondition ==
  (RequestsIngress /\ PortSet /\ ~ctx.exposeService /\ dpc \notin {"check", "emit", "expose"})
    => /\ dpc = "threw" /\ pc = "failed"
       /\ error = "exposeService is required when ingress is configured for deployment "
                    \o args.name
       /\ Len(ExposeCallsFor(Current)) = 0
       /\ Len(deployments) = 0

C6_Witness ==
  /\ RequestsIngress /\ PortSet /\ ~ctx.exposeService /\ dpc = "threw"
  /\ error = "exposeService is required when ingress is configured for deployment web"

\* C7: when composing a deployment fails on either configuration precondition
\* (missing containerPort, missing exposeService), no resource has been emitted
\* for that deployment.
C7_NoPartialEmission ==
  ( /\ dpc = "threw"
    /\ \/ error = "Container port must be defined when using ingress for application "
                    \o args.name
       \/ error = "exposeService is required when ingress is configured for deployment "
                    \o args.name )
    => Len(EmittedFor(Current)) = 0

\* The CI/CD composer has run.
CICDComposed == pc \in {"return", "returned"} /\ app.cicd # "false"
Field(doc, path) ==
  IF Len(path) = 1 THEN Get(doc, path[1])
  ELSE IF Len(path) = 2 THEN Get(Get(doc, path[1]), path[2])
  ELSE Get(Get(Get(doc, path[1]), path[2]), path[3])

\* C8: composeCICD returns {skipped: true} and emits nothing when the context
\* has no getDeployServiceAccount or when that callback returns null; when it
\* returns an identity, exactly one role and one binding are emitted, both in
\* the application's namespace, the binding references the role, and its single
\* subject carries the name and namespace of the identity.
C8_CICDSkipSemantics ==
  CICDComposed =>
    LET roles == EmittedOf("Role")
        bindings == EmittedOf("RoleBinding")
        asked == CallsOf("getDeployServiceAccount")
    IN IF ~ctx.cicd \/ (Len(asked) = 1 /\ asked[1].ret.kind = "null")
       THEN /\ cicd = Lit([skipped |-> Bool(TRUE)])
            /\ Len(roles) = 0 /\ Len(bindings) = 0
            /\ ~ctx.cicd => Len(asked) = 0
       ELSE /\ Len(asked) = 1 /\ asked[1].ret.kind = "identity"
            /\ Len(roles) = 1 /\ Len(bindings) = 1
            /\ Len(SelectSeq(emitted, LAMBDA r : r.by = "cicd")) = 2
            /\ Field(Body(roles[1]), <<"metadata", "namespace">>) = Text(ExpectedNamespace)
            /\ Field(Body(bindings[1]), <<"metadata", "namespace">>) = Text(ExpectedNamespace)
            /\ Field(Body(bindings[1]), <<"roleRef", "kind">>) = Text("Role")
            /\ Field(Body(bindings[1]), <<"roleRef", "name">>)
                 = Out(Field(Body(roles[1]), <<"metadata", "name">>))
            /\ LET subjects == Get(Body(bindings[1]), "subjects") IN
                 /\ subjects.k = "seq" /\ Len(subjects.s) = 1
                 /\ Get(subjects.s[1], "name") = Out(Text(asked[1].ret.sa.name))
                 /\ Get(subjects.s[1], "namespace") = Out(Text(asked[1].ret.sa.namespace))

\* An identity was returned and the role and binding were emitted.
C8_Witness ==
  /\ pc = "returned" /\ app.cicd = Unset /\ ctx.cicd
  /\ Len(EmittedOf("RoleBinding")) = 1
  /\ CallsOf("getDeployServiceAccount")[1].ret.sa.name = "bot"
  /\ app.namespace = "ns"

\* The secret bundle has been decided.
SecretsDefined == pc \in {"deployments", "return", "returned"}
NonEmpty(env) == env.k = "rec" /\ DOMAIN env.m # {}
DefaultSecrets(idx) == app.deployments[idx].secrets = Undef
Container(resource) ==
  Field(Body(resource), <<"spec", "template", "spec">>).m["containers"].s[1]

\* C9: one secret bundle, named from the application name and carrying the
\* environment, is emitted if and only if the computed environment is
\* non-empty; when the environment is absent or an empty mapping no secret is
\* emitted, the secrets field is null and no deployment's default container
\* carries a secret reference.
C9_SecretIffNonEmpty ==
  SecretsDefined =>
    LET bundles == EmittedOf("Secret") IN
      IF NonEmpty(environment)
      THEN /\ Len(bundles) = 1
           /\ bundles[1].name = app.name
           /\ Get(Body(bundles[1]), "stringData") = environment
      ELSE /\ Len(bundles) = 0
           /\ secrets = Null
           /\ pc = "returned" => result.secrets = Null
           /\ \A i \in DOMAIN emitted :
                (emitted[i].kind = "Deployment" /\ DefaultSecrets(emitted[i].idx))
                  => ~Truthy(Get(Container(emitted[i]), "envFrom"))

\* The service constructors have all returned.
ServicesResolved == pc \in {"secrets", "deployments", "return", "returned"}

PositionsOf(fn) == { i \in DOMAIN calls : calls[i].fn = fn }

\* C11: when app.environment is a function it is invoked exactly once, only
\* after every declared service constructor has returned, with the services
\* map the composition returns as its services field, and the payload of the
\* secret bundle is the value the function returned.
C11_EnvironmentFunction ==
  app.environment = EnvFunction =>
    LET asked == CallsOf("environment")
        constructed == CallsOf("service")
    IN /\ Len(asked) <= 1
       /\ Len(asked) = 1 =>
            /\ Len(constructed) = Len(app.services)
            /\ \A i \in DOMAIN constructed : constructed[i].ret # Thrown
            /\ \A i \in PositionsOf("service"), j \in PositionsOf("environment") : i < j
            /\ asked[1].arg = services
            /\ \A i \in DOMAIN services :
                 services[i] = <<app.services[i], constructed[i].ret>>
       /\ ServicesResolved =>
            /\ Len(asked) = 1
            /\ asked[1].ret = environment
       /\ pc = "returned" => result.services = asked[1].arg
       /\ \A i \in DOMAIN emitted :
            emitted[i].kind = "Secret"
              => Get(Body(emitted[i]), "stringData") = asked[1].ret

\* The function was given two resolved services and its mapping became the
\* payload of the secret bundle.
C11_Witness ==
  /\ pc = "returned" /\ app.environment = EnvFunction
  /\ Len(app.services) = 2
  /\ CallsOf("environment")[1].arg = result.services
  /\ CallsOf("environment")[1].ret = SomeEnv
  /\ Len(EmittedOf("Secret")) = 1
  /\ Get(Body(EmittedOf("Secret")[1]), "stringData") = SomeEnv

(***************************************************************************)
(* C12 - what is composed before the deployments.                         *)
(***************************************************************************)
\* A deployment composition has started / left something behind.
DeploymentStarted ==
  \/ dpc # "idle"
  \/ Len(deployments) > 0
  \/ \E i \in DOMAIN emitted : emitted[i].by \in {"deployment", "scaler"}
  \/ Len(CallsOf("exposeService")) > 0

ServiceFailed == \E i \in DOMAIN calls : calls[i].fn = "service" /\ calls[i].ret = Thrown
CICDFailed ==
  \E i \in DOMAIN calls :
    calls[i].fn = "getDeployServiceAccount" /\ calls[i].ret.kind = "throws"

\* C12 as stated: the CI/CD composer and every service constructor are
\* composed before any deployment composition starts; when the CI/CD composer
\* or a service constructor fails, no deployment has been composed and no
\* workload, exposure or autoscaler resource has been emitted.
C12_CICDAndServicesFirst ==
  /\ DeploymentStarted =>
       /\ Len(CallsOf("service")) = Len(app.services)
       /\ (app.cicd # "false" /\ ctx.cicd) => Len(CallsOf("getDeployServiceAccount")) = 1
  /\ (ServiceFailed \/ CICDFailed) => ~DeploymentStarted

\* C12 as amended: every service constructor is composed before any deployment
\* composition starts, and when a service constructor fails no deployment has
\* been composed and no workload, exposure or autoscaler resource has been
\* emitted; the CI/CD composer runs after the last deployment has been
\* composed, so when it fails every deployment of the application has been
\* composed and its resources stay emitted.
C12_ServicesFirst ==
  /\ DeploymentStarted =>
       /\ Len(CallsOf("service")) = Len(app.services)
       /\ ~ServiceFailed
  /\ ServiceFailed => (~DeploymentStarted /\ pc = "failed")
  /\ Len(CallsOf("getDeployServiceAccount")) > 0 =>
       /\ Len(deployments) = Len(app.deployments)
       /\ dpc = "idle"
       /\ \A k \in DOMAIN app.deployments :
            \E i \in DOMAIN emitted : emitted[i].kind = "Deployment" /\ emitted[i].idx = k
  /\ CICDFailed => pc = "failed"

\* getDeployServiceAccount throws after two deployments were composed.
C12_Witness ==
  /\ CICDFailed /\ pc = "failed"
  /\ Len(app.services) = 1
  /\ Len(deployments) = 2
  /\ Len(EmittedOf("Deployment")) = 2

(***************************************************************************)
(* C13 - partial failure of an application composition.                   *)
(***************************************************************************)
\* Composing the current deployment has failed.
DeploymentFailed == dpc = "threw"

\* The number of the last deployment whose composition has started.
Started == IF dpc = "idle" THEN Len(deployments) ELSE Current

EmittedAs(kind, idx) ==
  \E i \in DOMAIN emitted : emitted[i].kind = kind /\ emitted[i].idx = idx

\* C13: the deployments of an application are composed one at a time in array
\* order; when composing the k-th fails, the deployments after it are never
\* composed (no resource, no callback for them), what was emitted for the
\* namespace, the services, the secret bundle and the deployments before it
\* stays emitted, and the composition raises the failure instead of returning
\* a result.
C13_PartialFailure ==
  /\ \A i, j \in DOMAIN emitted :
       (i < j /\ emitted[i].idx > 0 /\ emitted[j].idx > 0) => emitted[i].idx <= emitted[j].idx
  /\ \A i, j \in DOMAIN calls :
       (i < j /\ calls[i].idx > 0 /\ calls[j].idx > 0) => calls[i].idx <= calls[j].idx
  /\ \A i \in DOMAIN emitted : emitted[i].idx <= Started
  /\ \A i \in DOMAIN calls : calls[i].idx <= Started
  /\ \A i \in DOMAIN emitted :
       emitted[i].kind = "Deployment"
         => emitted[i].args = ArgsOf(app, secrets, app.deployments[emitted[i].idx])
  /\ DeploymentFailed =>
       /\ pc = "failed" /\ error # "" /\ result = NoResult
       /\ Current \in DOMAIN app.deployments
       /\ emitted[1] = NamespaceResource(ExpectedNamespace)
       /\ Len(CallsOf("service")) = Len(app.services)
       /\ Truthy(environment) => Len(EmittedOf("Secret")) = 1
       /\ \A k \in 1..(Current - 1) :
            /\ EmittedAs("Deployment", k)
            /\ app.deployments[k].scaler.set => EmittedAs("HorizontalPodAutoscaler", k)
  /\ pc = "failed" => result = NoResult

\* The second of two deployments fails after the first one emitted its
\* workload and its autoscaler, and after the secret bundle was emitted.
C13_Witness ==
  /\ DeploymentFailed /\ Current = 2 /\ Len(app.deployments) = 2
  /\ EmittedAs("Deployment", 1) /\ EmittedAs("HorizontalPodAutoscaler", 1)
  /\ Len(EmittedOf("Secret")) = 1
  /\ Len(app.services) = 1
  /\ ~EmittedAs("Deployment", 2)

(***************************************************************************)
(* C15 - the CI/CD request flag.                                          *)
(***************************************************************************)
\* What the CI/CD composer returns, given what getDeployServiceAccount did.
ComposerResult ==
  LET asked == CallsOf("getDeployServiceAccount") IN
    IF Len(asked) = 1 /\ asked[1].ret.kind = "identity"
    THEN Lit([role |-> Lit([name |-> Out(Text("github-deployer")),
                            subjects |-> Out(Get(Body(EmittedOf("RoleBinding")[1]),
                                                 "subjects"))])])
    ELSE Lit([skipped |-> Bool(TRUE)])

\* C15: when app.cicd is exactly false the cicd field of the result is absent
\* (undefined, not {skipped: true}), getDeployServiceAccount is never invoked
\* and no role or binding is emitted; for every other value of app.cicd, an
\* omitted field included, the CI/CD composer is invoked once and what it
\* returns is the cicd field of the result.
C15_CICDFlag ==
  /\ app.cicd = "false" =>
       /\ Len(CallsOf("getDeployServiceAccount")) = 0
       /\ Len(EmittedOf("Role")) = 0 /\ Len(EmittedOf("RoleBinding")) = 0
       /\ pc = "returned" =>
            (result.cicd = Undef /\ result.cicd # Lit([skipped |-> Bool(TRUE)]))
  /\ (app.cicd # "false" /\ pc = "returned") =>
       /\ ctx.cicd => Len(CallsOf("getDeployServiceAccount")) = 1
       /\ ~ctx.cicd => Len(CallsOf("getDeployServiceAccount")) = 0
       /\ result.cicd = ComposerResult
       /\ result.cicd # Undef

\* CI/CD is switched off for an application whose platform offers an identity.
C15_Witness ==
  /\ pc = "returned" /\ app.cicd = "false" /\ ctx.cicd
  /\ result.cicd = Undef
  /\ Len(app.deployments) = 1

(***************************************************************************)
(* C17 - namespace resolution.                                            *)
(***************************************************************************)
\* app.namespace when the field is present, app.name otherwise.
GivenNamespace == IF app.namespace # Unset THEN app.namespace ELSE app.name

\* ns is the namespace of the composition: of its one namespace resource, of
\* its result, and of what every service constructor, every deployment
\* composition and the CI/CD composer were handed (the namespace their
\* resources are built from, and once the composition has ended the namespace
\* in the documents of these resources).
NamespaceIs(ns) ==
  /\ pc # "namespace" =>
       /\ Len(EmittedOf("Namespace")) = 1
       /\ EmittedOf("Namespace")[1].name = ns
       /\ Field(Body(EmittedOf("Namespace")[1]), <<"metadata", "name">>) = Text(ns)
  /\ pc = "returned" => result.namespace = ns
  /\ \A i \in DOMAIN calls :
       /\ calls[i].fn = "service" => calls[i].arg.namespace = ns
       /\ calls[i].fn = "exposeService" => calls[i].arg.namespace = ns
  /\ \A i \in DOMAIN emitted :
       emitted[i].by \in {"deployment", "scaler", "cicd"} => emitted[i].namespace = ns
  /\ pc \in {"returned", "failed"} =>
       \A i \in DOMAIN emitted :
         emitted[i].by \in {"deployment", "scaler", "cicd"}
           => Field(Body(emitted[i]), <<"metadata", "namespace">>) = Text(ns)

\* C17 as stated: the resolved namespace is app.namespace when it is given and
\* app.name otherwise; one namespace resource with that name is emitted, the
\* same value is the namespace field of the result and the namespace handed to
\* every service constructor, deployment composition and the CI/CD composer.
C17_NamespaceAsGiven == NamespaceIs(GivenNamespace)

\* C17 as amended: the resolved namespace is app.namespace when it is given
\* and not the empty string, and app.name otherwise; the rest as stated.
C17_NamespaceResolution == NamespaceIs(ExpectedNamespace)

\* An application with an empty namespace was composed with a service, a
\* deployment, an autoscaler and the CI/CD role.
C17_Witness ==
  /\ pc = "returned" /\ app.namespace = ""
  /\ result.namespace = app.name
  /\ Len(CallsOf("service")) >= 1
  /\ Len(EmittedOf("Deployment")) >= 1
  /\ Len(EmittedOf("HorizontalPodAutoscaler")) >= 1
  /\ Len(EmittedOf("RoleBinding")) = 1

(***************************************************************************)
(* C18 - the scaler composer passes its spec through.                     *)
(***************************************************************************)
\* The CPU utilization target of an autoscaler document.
CPUTargetOf(doc) ==
  Field(Get(Field(doc, <<"spec", "metrics">>).s[1], "resource"),
        <<"target", "averageUtilization">>)

\* C18: defineScaler(target, spec, namespace, cluster) emits exactly one
\* autoscaler whose target reference names target and whose minReplicas,
\* maxReplicas and CPU utilization target are the three numbers of the spec,
\* for every spec, one with minReplicas > maxReplicas included (no failure, no
\* clamping, no swapping), and returns the spec it was given.
C18_ScalerPassThrough ==
  pc = "returned" =>
    /\ error = ""
    /\ Len(emitted) = 1
    /\ emitted[1].kind = "HorizontalPodAutoscaler"
    /\ Field(Body(emitted[1]), <<"spec", "scaleTargetRef", "name">>) = Text(args.name)
    /\ Field(Body(emitted[1]), <<"spec", "scaleTargetRef", "kind">>) = Text("Deployment")
    /\ Field(Body(emitted[1]), <<"spec", "minReplicas">>) = Num(args.scaler.minReplicas)
    /\ Field(Body(emitted[1]), <<"spec", "maxReplicas">>) = Num(args.scaler.maxReplicas)
    /\ CPUTargetOf(Body(emitted[1])) = Num(args.scaler.targetCPUUtilization)
    /\ Field(Body(emitted[1]), <<"metadata", "namespace">>) = Text(namespace)
    /\ result.scaler = args.scaler

\* An inverted range went through.
C18_Witness ==
  /\ pc = "returned"
  /\ args.scaler.minReplicas = 3 /\ args.scaler.maxReplicas = 1
  /\ Field(Body(emitted[1]), <<"spec", "minReplicas">>) = Num(3)
  /\ Field(Body(emitted[1]), <<"spec", "maxReplicas">>) = Num(1)
  /\ result.scaler = Scaler(3, 1, args.scaler.targetCPUUtilization)

(***************************************************************************)
(* C19 - the chart values of the built-in redis service.                  *)
(***************************************************************************)
Has(doc, key) == doc.k = "rec" /\ key \in DOMAIN doc.m

\* The override gives master.persistence.size a value.
SetsSize(o) ==
  /\ Has(o, "master") /\ Has(o.m["master"], "persistence")
  /\ Has(o.m["master"].m["persistence"], "size")

\* The override itself decides the storage class: it holds a storageClass key,
\* or it replaces the global section as a whole by a value that is no record.
SetsStorageClass(o) ==
  \/ Has(o, "master") /\ Has(o.m["master"], "persistence")
       /\ Has(o.m["master"].m["persistence"], "storageClass")
  \/ Has(o, "global") /\ Has(o.m["global"], "storageClass")
  \/ Has(o, "global") /\ o.m["global"].k # "rec"

\* Where the definition at work keeps the storage class.
StorageClassOf(values) ==
  IF redis.definition = 1
  THEN Field(values, <<"global", "storageClass">>)
  ELSE Field(values, <<"master", "persistence", "storageClass">>)

Constructed == factory.services.set
Registry == factory.services.of
LookupFailed ==
  pc = "failed" /\ \E name \in ServiceNames : error = NotAFunction(name)

C16_RegistryConstruction ==
  /\ pc = "constructed" =>
       /\ Constructed
       /\ error = "" /\ emitted = <<>> /\ calls = <<>>
  /\ pc = "new" => ~Constructed
  /\ Constructed =>
       \A name \in ServiceNames \cup {"redis"} :
         IF factory.config.set /\ name \in DOMAIN factory.config.of
         THEN name \in DOMAIN Registry /\ Registry[name] = factory.config.of[name]
         ELSE IF name = "redis"
         THEN name \in DOMAIN Registry /\ Registry[name] = "defineRedis"
         ELSE name \notin DOMAIN Registry

\* The caller supplied its own redis next to a db service.
C16_Witness ==
  /\ pc = "constructed"
  /\ factory.config.set /\ DOMAIN factory.config.of = {"db", "redis"}
  /\ Registry["redis"] = "custom:redis"
  /\ Registry["db"] = "custom:db"

(***************************************************************************)
(* C20 - no branching on deferred values.                                 *)
(***************************************************************************)
Ended == pc \in {"returned", "failed"}

\* As far as both compositions invoked callbacks, these did the same: they
\* returned or threw alike and handed back an identity, null or a mapping
\* alike.
SameStaticOutcomes ==
  \A i \in DOMAIN calls \cap DOMAIN first.calls :
    OutcomeKind(calls[i]) = first.calls[i].outcome

\* The deferred handles of the two compositions resolved differently.
ResolvedDifferently == first.done /\ Ended /\ SameStaticOutcomes

\* C20: two compositions of the same application against the same cluster and
\* context, which differ only in the values their deferred handles resolve to
\* (the identity's name and namespace, the values of the environment), have
\* the same outcome: the same success or failure, the same emitted resources
\* by kind and logical name in the same order, the same callback invocations.
C20_NoBranchingOnDeferred ==
  ResolvedDifferently =>
    /\ pc = first.pc
    /\ error = first.error
    /\ [i \in DOMAIN emitted |-> ResourceShape(emitted[i])] = first.emitted
    /\ [i \in DOMAIN calls |-> CallShape(calls[i])] = first.calls

\* Both compositions emitted the binding, for two different identities, around
\* a secret bundle with two different payloads.
C20_Witness ==
  /\ ResolvedDifferently /\ pc = "returned"
  /\ Len(EmittedOf("RoleBinding")) = 1
  /\ EmittedOf("RoleBinding")[1].sa.name = "bot"
  /\ Len(EmittedOf("Secret")) = 1
  /\ environment = OtherEnv
  /\ Len(first.emitted) = Len(emitted)

(***************************************************************************)
(* C21 - orchestration order.  emitted and calls are in the order of the  *)
(* emissions and of the invocations; what was emitted when a callback is  *)
(* invoked shows in the states in between.                                *)
(***************************************************************************)
\* The order of the resources a completed composition emitted: the namespace
\* first, the secret bundle before everything of a deployment, the workloads
\* in array order and each before its autoscaler, the CI/CD resources last.
EmittedInOrder ==
  \A j \in DOMAIN emitted : \A i \in 1..(j - 1) :
    /\ emitted[j].kind # "Namespace"
    /\ emitted[j].kind = "Secret" => emitted[i].idx = 0
    /\ emitted[i].by = "cicd" => emitted[j].by = "cicd"
    /\ emitted[i].idx <= emitted[j].idx \/ emitted[j].by = "cicd"
    /\ emitted[i].idx = emitted[j].idx =>
         (emitted[i].kind = "HorizontalPodAutoscaler" => emitted[j].by = "cicd")

\* The order of the callbacks a completed composition invoked: the service
\* constructors in declaration order, each returning, then the environment
\* function, then exposeService for the deployments in array order, then
\* getDeployServiceAccount.
Rank(call) ==
  CASE call.fn = "service" -> 1
    [] call.fn = "environment" -> 2
    [] call.fn = "exposeService" -> 3
    [] OTHER -> 4

CallsInOrder ==
  /\ \A i \in DOMAIN app.services :
       /\ calls[i].fn = "service" /\ calls[i].name = app.services[i]
       /\ calls[i].ret # Thrown
  /\ \A j \in DOMAIN calls : \A i \in 1..(j - 1) :
       /\ Rank(calls[i]) <= Rank(calls[j])
       /\ Rank(calls[j]) = 3 => calls[i].idx < calls[j].idx
       /\ Rank(calls[j]) \in {2, 4} => Rank(calls[i]) < Rank(calls[j])

\* Every deployment of a completed composition was composed: its workload,
\* its exposeService call when it asks for exposure, its autoscaler when it
\* has a scaler.
AllComposed ==
  /\ Len(deployments) = Len(app.deployments)
  /\ \A k \in DOMAIN app.deployments :
       /\ EmittedAs("Deployment", k)
       /\ ExposureRequested(app.deployments[k]) <=> ExposeCallsFor(k) # <<>>
       /\ app.deployments[k].scaler.set <=> EmittedAs("HorizontalPodAutoscaler", k)

\* C21: the namespace resource is emitted before any service constructor is
\* invoked; every service constructor has returned before the environment is
\* computed; the secret bundle, if any, is emitted before the first deployment
\* is composed; the deployments are composed in array order, the workload of
\* each one being emitted before its exposeService call and that before its
\* autoscaler; the CI/CD composer runs after the last deployment.
C21_OrchestrationOrder ==
  /\ (pc = "services" \/ calls # <<>>) => emitted[1].kind = "Namespace"
  /\ pc = "secrets" => (Len(services) = Len(app.services) /\ Len(emitted) = 1)
  /\ (pc = "deployments" /\ deployments = <<>> /\ dpc \in {"idle", "check", "emit"}) =>
       Len(emitted) = (IF Truthy(environment) THEN 2 ELSE 1)
  /\ (Started > 0 /\ Truthy(environment)) => emitted[2].kind = "Secret"
  /\ dpc = "emit" => ~EmittedAs("Deployment", Current)
  /\ dpc \in {"expose", "scale"} =>
       /\ emitted[Len(emitted)].kind = "Deployment"
       /\ emitted[Len(emitted)].idx = Current
  /\ dpc = "expose" => ExposeCallsFor(Current) = <<>>
  /\ (dpc = "scale" /\ ExposureRequested(args)) =>
       /\ calls[Len(calls)].fn = "exposeService"
       /\ calls[Len(calls)].idx = Current
  /\ (dpc # "idle" \/ Len(deployments) < Len(app.deployments)) =>
       /\ CallsOf("getDeployServiceAccount") = <<>>
       /\ \A i \in DOMAIN emitted : emitted[i].by # "cicd"
  /\ pc = "returned" => (EmittedInOrder /\ CallsInOrder /\ AllComposed)

\* A composition that completed: two services, an environment function, the
\* secret bundle, two deployments of which one is exposed and scaled, and the
\* CI/CD role.
C21_Witness ==
  /\ pc = "returned"
  /\ Len(app.services) = 2
  /\ CallsOf("environment") # <<>>
  /\ EmittedOf("Secret") # <<>>
  /\ Len(app.deployments) = 2
  /\ ExposeCallsFor(2) # <<>> /\ EmittedAs("HorizontalPodAutoscaler", 2)
  /\ EmittedAs("HorizontalPodAutoscaler", 1)
  /\ EmittedOf("Role") # <<>>

(***************************************************************************)
(* C22 - deployment-level precedence.  Applications whose deployment      *)
(* entries set or omit name, and carry or omit a secrets property.        *)
(***************************************************************************)
\* A property that is present and holds undefined (secrets: undefined).
Undefined == [k |-> "undef", own |-> TRUE]

PrecedenceEntries ==
  { Entry(name, Unset, port, IF port = 0 THEN NoIngress ELSE Ingress("/health"),
          IF port = 0 THEN NoScaler ELSE Scaler(2, 10, 70), own, Undef, Undef) :
      name \in {Unset, "api"}, port \in {0, 3000},
      own \in {Undef, Undefined, Null, Text("own-secret")} }

PrecedenceApplications ==
  [name : {AppName}, namespace : {Unset}, services : {<<>>, <<"redis">>},
   environment : {NoEnv, SomeEnv},
   deployments : UNION { [1..n -> PrecedenceEntries] : n \in 1..MaxDeployments },
   cicd : {Unset}]

InitPrecedence ==
  /\ MergeIdle
  /\ app \in PrecedenceApplications
  /\ ctx = [exposeService |-> TRUE, cicd |-> TRUE]
  /\ pc = "namespace" /\ namespace = Unset /\ emitted = <<>> /\ calls = <<>>
  /\ services = <<>> /\ environment = Undef /\ secrets = Null
  /\ args = NoArgs /\ dpc = "idle" /\ exposed = Unset /\ deployments = <<>>
  /\ cicd = Undef /\ result = NoResult /\ error = ""
  /\ Alone

SpecPrecedence == InitPrecedence /\ [][Next]_vars

\* The reference to the application's secret bundle, null without a bundle.
BundleReference ==
  IF EmittedOf("Secret") # <<>> THEN Out(Text("for-" \o app.name)) ELSE Null

\* What the claim expects the deployment composer to be handed for an entry.
Handed(entry) ==
  [name |-> IF entry.name # Unset THEN entry.name ELSE app.name,
   secrets |-> IF entry.secrets # Undef THEN entry.secrets ELSE BundleReference,
   image |-> entry.image, tag |-> entry.tag, containerPort |-> entry.containerPort,
   ingress |-> entry.ingress, scaler |-> entry.scaler,
   containerOverride |-> entry.containerOverride,
   deploymentOverride |-> entry.deploymentOverride]

\* C22: for every entry of app.deployments, the configuration handed to the
\* deployment composer has the entry's name when the entry sets one and the
\* application's name otherwise, the entry's own secrets property when the
\* entry carries one (whatever it holds) and otherwise the reference to the
\* application's secret bundle, or null when there is no bundle; every other
\* field is the entry's.
C22_DeploymentPrecedence ==
  /\ dpc # "idle" => args = Handed(app.deployments[Current])
  /\ \A i \in DOMAIN emitted :
       emitted[i].kind = "Deployment"
         => emitted[i].args = Handed(app.deployments[emitted[i].idx])

\* The first entry sets its name and carries secrets: undefined, the second
\* one omits both and is handed the application's name and bundle.
C22_Witness ==
  /\ dpc = "check" /\ Current = 2
  /\ app.deployments[1].name = "api" /\ app.deployments[1].secrets = Undefined
  /\ EmittedAs("Deployment", 1)
  /\ EmittedOf("Deployment")[1].args.secrets = Undefined
  /\ app.deployments[2].name = Unset /\ app.deployments[2].secrets = Undef
  /\ args.name = AppName /\ args.secrets = SecretName(app)

(***************************************************************************)
(* C23 - exposure delegation.                                             *)
(***************************************************************************)
\* The running defineDeployment call is past its exposure step.
PastExposure == dpc = "scale" \/ deployments # <<>>

\* C23: while one deployment is composed, exposeService is invoked exactly
\* once if ingress is requested and containerPort is set, and never when
\* ingress is not requested; it is invoked with the cluster and a record
\* carrying the deployment's own configuration (its name, containerPort and
\* ingress description among it) and the namespace; what it returns is the
\* ingress field of the deployment's result, unmodified, and that field is
\* absent when exposure was not requested.
C23_ExposureDelegation ==
  LET made == CallsOf("exposeService") IN
    /\ Len(made) <= 1
    /\ ~RequestsIngress => made = <<>>
    /\ (PastExposure /\ RequestsIngress /\ PortSet) => Len(made) = 1
    /\ \A i \in DOMAIN made :
         /\ made[i].arg.cluster = Cluster
         /\ made[i].arg.deployment = args
         /\ made[i].arg.namespace = namespace
         /\ made[i].arg.deployment.name = args.name
         /\ made[i].arg.deployment.containerPort = args.containerPort
         /\ made[i].arg.deployment.ingress = args.ingress
    /\ deployments # <<>> =>
         deployments[1].ingress =
           (IF RequestsIngress /\ PortSet THEN made[1].ret ELSE Unset)

\* A deployment with overrides was exposed and returned what the platform
\* handed back.
C23_Witness ==
  /\ deployments # <<>>
  /\ Len(CallsOf("exposeService")) = 1
  /\ deployments[1].ingress = ExposedServiceResult(args.name)
  /\ args.deploymentOverride # Undef /\ args.containerOverride # Undef
  /\ args.scaler.set

(***************************************************************************)
(* C24 - the autoscaler targets the emitted workload.                     *)
(***************************************************************************)
\* C24: for every deployment composed with a scaler, and for every
\* containerOverride and deploymentOverride, the autoscaler's target name and
\* its namespace are the metadata name and namespace of the workload resource
\* emitted for that deployment.
C24_AutoscalerTargetsWorkload ==
  \A i, j \in DOMAIN emitted :
    (/\ emitted[i].kind = "HorizontalPodAutoscaler"
     /\ emitted[j].kind = "Deployment"
     /\ emitted[i].idx = emitted[j].idx)
      => /\ Field(Body(emitted[i]), <<"spec", "scaleTargetRef", "name">>)
              = Field(Body(emitted[j]), <<"metadata", "name">>)
         /\ Field(Body(emitted[i]), <<"metadata", "namespace">>)
              = Field(Body(emitted[j]), <<"metadata", "namespace">>)

(***************************************************************************)
(* C25 - unique logical names.                                            *)
(***************************************************************************)
\* C25: within one application composition no two emitted resources of the
\* same kind carry the same logical name, also when two or more deployment
\* entries omit name.
C25_UniqueLogicalNames ==
  \A i, j \in DOMAIN emitted :
    (i # j /\ emitted[i].kind = emitted[j].kind) => emitted[i].name # emitted[j].name

(***************************************************************************)
(* C26 - layering three documents.  deepMerge applied to a base and two   *)
(* overrides, in both groupings.                                          *)
(***************************************************************************)
\* The documents layered: records over Keys, two levels deep.
Layers(root) == Level2(<<root>>) \cup {Undef}

InitLayers ==
  /\ base \in Layers("base")
  /\ override \in Layers("override")
  /\ layer \in Layers("layer")
  /\ merged = Undef /\ regrouped = Undef
  /\ mpc = "call"
  /\ ComposeIdle

\* merged = deepMerge(deepMerge(base, override), layer)
\* regrouped = deepMerge(base, deepMerge(override, layer))
MergeLayers ==
  /\ mpc = "call"
  /\ merged' = deepMerge(deepMerge(base, override), layer)
  /\ regrouped' = deepMerge(base, deepMerge(override, layer))
  /\ mpc' = "returned"
  /\ UNCHANGED <<base, override, layer, avars>>

NextLayers == MergeLayers

SpecLayers == InitLayers /\ [][NextLayers]_vars

\* C26: for all structured documents a, b and c, deepMerge(deepMerge(a, b), c)
\* is structurally equal to deepMerge(a, deepMerge(b, c)).
C26_Associative ==
  MergeReturned => Plain(merged) = Plain(regrouped)

\* b holds a record or nothing at every key, at any depth, at which c holds a
\* record.
RECURSIVE KeepsRecords(_, _)
KeepsRecords(b, c) ==
  \A key \in DOMAIN OwnProps(c) :
    Get(c, key).k = "rec" =>
      \/ key \notin DOMAIN OwnProps(b)
      \/ Get(b, key).k = "rec" /\ KeepsRecords(Get(b, key), Get(c, key))

\* C26 (amended): deepMerge(deepMerge(a, b), c) is structurally equal to
\* deepMerge(a, deepMerge(b, c)) for all records a, b and c where b holds no
\* scalar, null or sequence at a key, at any depth, at which c holds a record.
C26_AssociativeOverRecords ==
  (MergeReturned /\ KeepsRecords(override, layer)) => Plain(merged) = Plain(regrouped)

\* Three layers that each hold a record at the same key: the base's fields
\* there survive two empty records, and the middle layer replaces a sequence
\* of the base that the last layer does not mention.
C26_Witness ==
  /\ MergeReturned /\ KeepsRecords(override, layer)
  /\ Get(base, NestKey).k = "rec" /\ DOMAIN Get(base, NestKey).m # {}
  /\ Get(override, NestKey).k = "rec" /\ DOMAIN Get(override, NestKey).m = {}
  /\ Get(layer, NestKey).k = "rec" /\ DOMAIN Get(layer, NestKey).m = {}
  /\ Get(base, "b").k = "seq" /\ Get(override, "b").k = "num"
  /\ "b" \notin DOMAIN OwnProps(layer)
  /\ Plain(Get(merged, NestKey)) = Plain(Get(base, NestKey))
  /\ Get(regrouped, "b") = Get(override, "b")

====
